---- MODULE Spec2Model ----
(***************************************************************************)
(* MoodMate: the sentiment analyzer (sentiment_analyzer.py) and the        *)
(* journal-entry endpoint (app.py).                                        *)
(*                                                                         *)
(* Numbers.  Python floats are modelled as exact rationals <<n, d>> with   *)
(* d > 0, kept in lowest terms.  The values analyze() returns are rounded  *)
(* to three decimals and are held as integers counting thousandths.  The   *)
(* scores of the two external libraries (VADER's compound, TextBlob's      *)
(* polarity) are inputs, given in thousandths.                             *)
(*                                                                         *)
(* Text.  A text is a sequence of atoms, each atom a string: a whitespace  *)
(* character, a punctuation character, or a run of letters (a word or a    *)
(* contraction).  Atoms written next to each other with no whitespace      *)
(* between them form one token, exactly as characters do in Python.        *)
(***************************************************************************)
EXTENDS Integers, Sequences, FiniteSets, TLC

VARIABLES self, call, fn, entries, session, request, response, utcnow

vars == <<self, call, fn, entries, session, request, response, utcnow>>

(***************************************************************************)
(* Bounds of the model.                                                    *)
(***************************************************************************)
\* longest input text, in atoms, handed to analyze() directly
MaxLen == 3
\* most entries the store is let grow to
MaxEntries == 2
\* last day the UTC clock is let advance to (days are numbered from 0)
MaxDay == 1

(***************************************************************************)
(* Rational arithmetic.                                                    *)
(***************************************************************************)
RECURSIVE GCD(_, _)
GCD(a, b) == IF b = 0 THEN a ELSE GCD(b, a % b)

Abs(n) == IF n < 0 THEN -n ELSE n

Norm(n, d) ==
    LET g == GCD(Abs(n), d)
    IN  <<n \div g, d \div g>>

Rat(n, d) == Norm(n, d)
RAdd(a, b) == Norm(a[1] * b[2] + b[1] * a[2], a[2] * b[2])
RMul(a, b) == Norm(a[1] * b[1], a[2] * b[2])
RAbs(a) == <<Abs(a[1]), a[2]>>
RLe(a, b) == a[1] * b[2] <= b[1] * a[2]
RLt(a, b) == a[1] * b[2] < b[1] * a[2]
RMin(a, b) == IF RLe(a, b) THEN a ELSE b
RMax(a, b) == IF RLe(a, b) THEN b ELSE a
Max2(a, b) == IF a >= b THEN a ELSE b

\* round(x, 3), as a count of thousandths; an exact tie goes to the even one
Round3(x) ==
    LET n == x[1] * 1000
        d == x[2]
        q == n \div d
        r == n - q * d
    IN  IF 2 * r < d THEN q
        ELSE IF 2 * r > d THEN q + 1
        ELSE IF q % 2 = 0 THEN q ELSE q + 1

(***************************************************************************)
(* Characters and strings.                                                 *)
(***************************************************************************)
\* the atoms str.strip(), str.split() and the pattern \s treat as whitespace
Whitespace == {" ", "\t"}

\* atoms that are not word characters (the pattern \b sees a boundary there)
Punctuation == {"!", "."}

IsWordAtom(a) == a \notin Whitespace /\ a \notin Punctuation

\* str.lower() of the atoms that hold upper-case letters
LowerCase == ("VERY" :> "very" @@ "Grateful" :> "grateful" @@ "I'm" :> "i'm")

\* the number of upper-case characters of those atoms
UpperCount == ("VERY" :> 4 @@ "Grateful" :> 1 @@ "I'm" :> 1)

lower(a) == IF a \in DOMAIN LowerCase THEN LowerCase[a] ELSE a

isupper(a) == IF a \in DOMAIN UpperCount THEN UpperCount[a] ELSE 0

RECURSIVE SumSeq(_)
SumSeq(s) == IF s = <<>> THEN 0 ELSE Head(s) + SumSeq(Tail(s))

\* len(text): the number of characters
len(text) == SumSeq([i \in 1..Len(text) |-> Len(text[i])])

\* sum(1 for c in text if c.isupper())
CountUpper(text) == SumSeq([i \in 1..Len(text) |-> isupper(text[i])])

\* text.count(c) for a one-character string c
count(text, c) == Cardinality({i \in 1..Len(text) : text[i] = c})

\* text.strip()
RECURSIVE lstrip(_)
lstrip(text) ==
    IF text # <<>> /\ Head(text) \in Whitespace THEN lstrip(Tail(text)) ELSE text

RECURSIVE rstrip(_)
rstrip(text) ==
    IF text # <<>> /\ text[Len(text)] \in Whitespace
    THEN rstrip(SubSeq(text, 1, Len(text) - 1))
    ELSE text

strip(text) == rstrip(lstrip(text))

\* text.split(): the maximal runs of non-whitespace atoms, each joined into
\* one string
RECURSIVE SplitFrom(_, _, _)
SplitFrom(text, cur, started) ==
    IF text = <<>> THEN (IF started THEN <<cur>> ELSE <<>>)
    ELSE IF Head(text) \in Whitespace
         THEN (IF started THEN <<cur>> ELSE <<>>) \o SplitFrom(Tail(text), "", FALSE)
         ELSE SplitFrom(Tail(text), cur \o Head(text), TRUE)

split(text) == SplitFrom(text, "", FALSE)

\* re.sub(r'\s+', ' ', text): every run of whitespace becomes one space
RECURSIVE CollapseWhitespace(_)
CollapseWhitespace(text) ==
    IF text = <<>> THEN <<>>
    ELSE IF Head(text) \in Whitespace
         THEN <<" ">> \o CollapseWhitespace(lstrip(text))
         ELSE <<Head(text)>> \o CollapseWhitespace(Tail(text))

(***************************************************************************)
(* The analyzer's tables (SentimentAnalyzer.__init__).  Weights and        *)
(* multipliers count tenths: 'grateful': 2.0 is 20, 'very': 1.3 is 13.     *)
(***************************************************************************)
positive_psychology_words ==
    ("grateful" :> 20 @@ "thankful" :> 18 @@ "blessed" :> 15 @@ "accomplished" :> 22 @@
     "proud" :> 20 @@ "confident" :> 18 @@ "optimistic" :> 19 @@ "hopeful" :> 21 @@
     "peaceful" :> 17 @@ "content" :> 15 @@ "fulfilled" :> 23 @@ "motivated" :> 19 @@
     "inspired" :> 20 @@ "energetic" :> 16 @@ "relaxed" :> 14 @@ "calm" :> 13 @@
     "balanced" :> 15 @@ "centered" :> 14 @@ "empowered" :> 21 @@ "resilient" :> 20 @@
     "progress" :> 17 @@ "growth" :> 18 @@ "breakthrough" :> 22 @@ "healing" :> 19)

negative_psychology_words ==
    ("anxious" :> -21 @@ "overwhelmed" :> -23 @@ "depressed" :> -25 @@ "hopeless" :> -28 @@
     "frustrated" :> -19 @@ "lonely" :> -20 @@ "stressed" :> -22 @@ "worried" :> -18 @@
     "disappointed" :> -17 @@ "exhausted" :> -20 @@ "burnout" :> -24 @@ "numb" :> -19 @@
     "empty" :> -21 @@ "worthless" :> -27 @@ "helpless" :> -24 @@ "trapped" :> -22 @@
     "confused" :> -15 @@ "lost" :> -18 @@ "broken" :> -23 @@ "struggling" :> -19 @@
     "panic" :> -26 @@ "fear" :> -18 @@ "terror" :> -25 @@ "dread" :> -22)

intensity_modifiers ==
    ("very" :> 13 @@ "extremely" :> 15 @@ "incredibly" :> 14 @@ "really" :> 12 @@
     "quite" :> 11 @@ "pretty" :> 11 @@ "somewhat" :> 8 @@ "slightly" :> 7 @@
     "a bit" :> 6 @@ "a little" :> 6 @@ "totally" :> 14 @@ "completely" :> 15)

intensity_indicators ==
    {"very", "extremely", "incredibly", "totally", "completely",
     "absolutely", "utterly", "deeply", "intensely", "overwhelming",
     "devastating", "amazing", "fantastic", "terrible", "awful"}

\* the fields of the analyzer object after construction
NewAnalyzer ==
    [positive_psychology_words |-> positive_psychology_words,
     negative_psychology_words |-> negative_psychology_words,
     intensity_modifiers |-> intensity_modifiers]

contractions ==
    ("i'm" :> <<"i", " ", "am">> @@ "i've" :> <<"i", " ", "have">> @@
     "i'll" :> <<"i", " ", "will">> @@ "i'd" :> <<"i", " ", "would">> @@
     "you're" :> <<"you", " ", "are">> @@ "you've" :> <<"you", " ", "have">> @@
     "you'll" :> <<"you", " ", "will">> @@ "you'd" :> <<"you", " ", "would">> @@
     "he's" :> <<"he", " ", "is">> @@ "she's" :> <<"she", " ", "is">> @@
     "it's" :> <<"it", " ", "is">> @@ "we're" :> <<"we", " ", "are">> @@
     "they're" :> <<"they", " ", "are">> @@ "can't" :> <<"cannot">> @@
     "won't" :> <<"will", " ", "not">> @@ "don't" :> <<"do", " ", "not">> @@
     "didn't" :> <<"did", " ", "not">> @@ "couldn't" :> <<"could", " ", "not">> @@
     "wouldn't" :> <<"would", " ", "not">> @@ "shouldn't" :> <<"should", " ", "not">>)

(***************************************************************************)
(* SentimentAnalyzer.preprocess_text                                       *)
(***************************************************************************)
\* re.sub(r'\b' + contraction + r'\b', expansion, text, flags=re.IGNORECASE)
\* over the whole table: an atom that is a contraction in any letter case,
\* with no word character right before or after it, becomes its expansion
ExpandContractions(text) ==
    LET boundary(i) == i < 1 \/ i > Len(text) \/ ~IsWordAtom(text[i])
        piece(i) ==
            IF lower(text[i]) \in DOMAIN contractions /\ boundary(i - 1) /\ boundary(i + 1)
            THEN contractions[lower(text[i])]
            ELSE <<text[i]>>
        from[i \in 1..(Len(text) + 1)] ==
            IF i > Len(text) THEN <<>> ELSE piece(i) \o from[i + 1]
    IN  from[1]

preprocess_text(text) ==
    LET spaced == CollapseWhitespace(strip(text))
        expanded == ExpandContractions(spaced)
    IN  [i \in 1..Len(expanded) |-> lower(expanded[i])]

(***************************************************************************)
(* SentimentAnalyzer.psychology_weighted_analysis                          *)
(***************************************************************************)
\* the modifier looked up on the word itself instead of the one before it
WordScore_unmodified(this, words, i) ==
    LET word == words[i]
        word_score ==
            IF word \in DOMAIN this.positive_psychology_words
            THEN this.positive_psychology_words[word]
            ELSE IF word \in DOMAIN this.negative_psychology_words
                 THEN this.negative_psychology_words[word]
                 ELSE 0
    IN  IF word \in DOMAIN this.intensity_modifiers
        THEN word_score * this.intensity_modifiers[word]
        ELSE word_score * 10

\* the word's weight, times the modifier before it: in hundredths
WordScore(this, words, i) ==
    LET word == words[i]
        word_score ==
            IF word \in DOMAIN this.positive_psychology_words
            THEN this.positive_psychology_words[word]
            ELSE IF word \in DOMAIN this.negative_psychology_words
                 THEN this.negative_psychology_words[word]
                 ELSE 0
    IN  IF i > 1 /\ words[i - 1] \in DOMAIN this.intensity_modifiers
        THEN word_score * this.intensity_modifiers[words[i - 1]]
        ELSE word_score * 10

\* total_score, in hundredths
TotalScore(this, words) ==
    SumSeq([i \in 1..Len(words) |-> WordScore(this, words, i)])

psychology_weighted_analysis(this, text) ==
    LET words == split(text)
        word_count == Len(words)
    IN  IF word_count = 0 THEN <<0, 1>>
        ELSE Rat(TotalScore(this, words), 100 * word_count)

(***************************************************************************)
(* SentimentAnalyzer.analyze_emotional_intensity                           *)
(***************************************************************************)
analyze_emotional_intensity(text) ==
    LET words == split(text)
        intensity_count ==
            Cardinality({i \in 1..Len(words) : words[i] \in intensity_indicators})
        exclamation_count == count(text, "!")
        caps_ratio == Rat(CountUpper(text), Max2(len(text), 1))
        intensity_score ==
            RAdd(RAdd(RMul(Rat(intensity_count, Max2(Len(words), 1)), Rat(5, 10)),
                      RMul(Rat(exclamation_count, Max2(count(text, ".") + 1, 1)),
                           Rat(3, 10))),
                 RMul(caps_ratio, Rat(2, 10)))
    IN  RMin(intensity_score, <<1, 1>>)

(***************************************************************************)
(* SentimentAnalyzer.calculate_combined_score                              *)
(***************************************************************************)
\* the weights with TextBlob's mistyped as VADER's: they sum to 1.1
weights_typo ==
    [vader |-> Rat(35, 100), textblob |-> Rat(35, 100),
     psychology |-> Rat(30, 100), intensity |-> Rat(10, 100)]

weights ==
    [vader |-> Rat(35, 100), textblob |-> Rat(25, 100),
     psychology |-> Rat(30, 100), intensity |-> Rat(10, 100)]

\* the local `combined`: the weighted sum, before it is clamped
combined(vader_compound, textblob_polarity, psych_score, intensity_score) ==
    RAdd(RAdd(RMul(vader_compound, weights.vader),
              RMul(textblob_polarity, weights.textblob)),
         RAdd(RMul(psych_score, weights.psychology),
              RMul(intensity_score, weights.intensity)))

\* the weighted sum returned as it is, with the clamp forgotten
calculate_combined_score_unclamped(vader_compound, textblob_polarity, psych_score, intensity_score) ==
    combined(vader_compound, textblob_polarity, psych_score, intensity_score)

calculate_combined_score(vader_compound, textblob_polarity, psych_score, intensity_score) ==
    RMax(<<-1, 1>>,
         RMin(<<1, 1>>,
              combined(vader_compound, textblob_polarity, psych_score, intensity_score)))

(***************************************************************************)
(* SentimentAnalyzer.classify_sentiment                                    *)
(***************************************************************************)
\* the thresholds taken with strict comparisons
classify_sentiment_strict(combined_score) ==
    IF RLt(Rat(15, 100), combined_score) THEN "positive"
    ELSE IF RLt(combined_score, Rat(-15, 100)) THEN "negative"
    ELSE "neutral"

classify_sentiment(combined_score) ==
    IF RLe(Rat(15, 100), combined_score) THEN "positive"
    ELSE IF RLe(combined_score, Rat(-15, 100)) THEN "negative"
    ELSE "neutral"

(***************************************************************************)
(* SentimentAnalyzer.calculate_confidence                                  *)
(***************************************************************************)
\* abs(s) >= 0.05
HasOpinion_inclusive(s) == RLe(Rat(5, 100), RAbs(s))

\* abs(s) > 0.05: the method has an opinion
HasOpinion(s) == RLt(Rat(5, 100), RAbs(s))

calculate_confidence(vader_scores, textblob_polarity, psych_score) ==
    LET scores == <<vader_scores.compound, textblob_polarity, psych_score>>
        non_zero == {i \in 1..3 : HasOpinion(scores[i])}
        n == Cardinality(non_zero)
        positive_count == Cardinality({i \in non_zero : RLt(Rat(1, 10), scores[i])})
        negative_count == Cardinality({i \in non_zero : RLt(scores[i], Rat(-1, 10))})
        neutral_count == n - positive_count - negative_count
        max_agreement == Max2(positive_count, Max2(negative_count, neutral_count))
        agreement_ratio == Rat(max_agreement, n)
        magnitude[i \in 0..3] ==
            IF i = 0 THEN <<0, 1>>
            ELSE IF i \in non_zero THEN RAdd(magnitude[i - 1], RAbs(scores[i]))
                 ELSE magnitude[i - 1]
        avg_magnitude == RMul(magnitude[3], Rat(1, n))
        confidence == RAdd(RMul(agreement_ratio, Rat(7, 10)),
                           RMul(avg_magnitude, Rat(3, 10)))
    IN  IF n < 2 THEN Rat(5, 10) ELSE RMin(confidence, <<1, 1>>)

(***************************************************************************)
(* SentimentAnalyzer.analyze and SentimentAnalyzer._empty_result           *)
(*                                                                         *)
(* vader and textblob are what SentimentIntensityAnalyzer.polarity_scores  *)
(* and TextBlob(...).sentiment.polarity give for the cleaned text, in      *)
(* thousandths.  VADER's pos/neu/neg and TextBlob's subjectivity are       *)
(* copied into the result untouched and feed nothing else; they are left   *)
(* out.                                                                    *)
(***************************************************************************)
empty_result ==
    [compound_score |-> 0,
     sentiment_label |-> "neutral",
     confidence |-> 0,
     vader_scores |-> [compound |-> 0],
     textblob_polarity |-> 0,
     psychology_score |-> 0,
     emotional_intensity |-> 0,
     word_count |-> 0]

\* only `not text`: whitespace-only text goes down the pipeline
EmptyInput_nostrip(text) == text = <<>>

\* not text or not text.strip()
EmptyInput(text) == text = <<>> \/ strip(text) = <<>>

\* the locals of one run of analyze on a non-empty text, in the order the
\* method computes them; weighted_sum is the local `combined` of
\* calculate_combined_score, before the clamp
Fused(cleaned_text, vader_scores, textblob_polarity, psych_score, intensity_score) ==
    [cleaned_text |-> cleaned_text,
     vader_scores |-> vader_scores,
     textblob_polarity |-> textblob_polarity,
     psych_score |-> psych_score,
     intensity_score |-> intensity_score,
     weighted_sum |->
         combined(vader_scores.compound, textblob_polarity,
                  psych_score, intensity_score),
     combined_score |->
         calculate_combined_score(vader_scores.compound, textblob_polarity,
                                  psych_score, intensity_score),
     confidence |->
         calculate_confidence(vader_scores, textblob_polarity, psych_score)]

Scored(this, cleaned_text, vader_scores, textblob_polarity) ==
    Fused(cleaned_text, vader_scores, textblob_polarity,
          psychology_weighted_analysis(this, cleaned_text),
          analyze_emotional_intensity(cleaned_text))

Locals(this, text, vader, textblob) ==
    Scored(this, preprocess_text(text),
           [compound |-> Rat(vader, 1000)], Rat(textblob, 1000))

\* the dictionary analyze returns, from its locals
Result(l, vader) ==
    [compound_score |-> Round3(l.combined_score),
     sentiment_label |-> classify_sentiment(l.combined_score),
     confidence |-> Round3(l.confidence),
     vader_scores |-> [compound |-> vader],
     textblob_polarity |-> Round3(l.textblob_polarity),
     psychology_score |-> Round3(l.psych_score),
     emotional_intensity |-> Round3(l.intensity_score),
     word_count |-> Len(split(l.cleaned_text))]

analyze(this, text, vader, textblob) ==
    IF EmptyInput(text) THEN empty_result
    ELSE Result(Locals(this, text, vader, textblob), vader)

\* the methods and library calls one run of analyze makes
Invoked(text) ==
    IF EmptyInput(text) THEN {"_empty_result"}
    ELSE {"preprocess_text", "polarity_scores", "TextBlob",
          "psychology_weighted_analysis", "analyze_emotional_intensity",
          "calculate_combined_score", "classify_sentiment", "calculate_confidence"}

(***************************************************************************)
(* Callers of analyze.  Each thread of the server may be inside analyze    *)
(* at the same time as the other; a call reads its arguments when it is    *)
(* made and the analyzer's tables when it runs.                            *)
(***************************************************************************)
Threads == {1, 2}

\* the atoms input texts are drawn from
Vocab == {" ", "grateful", "hopeless", "very", "extremely", "!", ".", "I'm"}

Texts(n) == UNION {[1..k -> Vocab] : k \in 0..n}

\* scores the external libraries may give, in thousandths of [-1, 1]
General == {-1000, 0, 428, 600, 1000}

\* the texts and scores of the calls that run side by side
SharedTexts ==
    {<<>>, <<" ", "\t">>, <<"very", " ", "grateful">>, <<"VERY", " ", "Grateful", "!">>,
     <<"I'm", " ", "extremely", " ", "hopeless">>}

SharedGeneral == {-500, 600}

Idle == [pc |-> "idle"]

Call(th, text, vader, textblob) ==
    /\ call[th].pc \in {"idle", "done"}
    /\ call' = [call EXCEPT ![th] =
                   [pc |-> "running", text |-> text,
                    vader |-> vader, textblob |-> textblob]]
    /\ UNCHANGED <<self, fn, entries, session, request, response, utcnow>>

\* what a finished call leaves behind: its arguments, the value returned, the
\* methods it went through and the locals it computed on the way
Done(this, c) ==
    [pc |-> "done", text |-> c.text, vader |-> c.vader, textblob |-> c.textblob,
     result |-> analyze(this, c.text, c.vader, c.textblob),
     invoked |-> Invoked(c.text),
     locals |-> IF EmptyInput(c.text) THEN [returned_early |-> TRUE]
                ELSE Locals(this, c.text, c.vader, c.textblob)]

\* the tables after a run that stores each modified weight back into them
WrittenBack(this, c) ==
    LET words == split(preprocess_text(c.text))
        hit == {i \in 2..Len(words) :
                   /\ words[i - 1] \in DOMAIN this.intensity_modifiers
                   /\ words[i] \in DOMAIN this.positive_psychology_words}
    IN  [this EXCEPT !.positive_psychology_words =
            [w \in DOMAIN @ |->
                IF \E i \in hit : words[i] = w
                THEN (@[w] * this.intensity_modifiers[
                                 words[(CHOOSE i \in hit : words[i] = w) - 1]]) \div 10
                ELSE @[w]]]

\* analyze with `word_score *= modifier` writing through to the table
Return_writeback(th) ==
    /\ call[th].pc = "running"
    /\ call' = [call EXCEPT ![th] = Done(self, call[th])]
    /\ self' = IF EmptyInput(call[th].text) THEN self ELSE WrittenBack(self, call[th])
    /\ UNCHANGED <<fn, entries, session, request, response, utcnow>>

Return(th) ==
    /\ call[th].pc = "running"
    /\ call' = [call EXCEPT ![th] = Done(self, call[th])]
    /\ UNCHANGED <<self, fn, entries, session, request, response, utcnow>>

NoRequest == [data |-> [kind |-> "none"]]
NoResponse == [status |-> 0]
NewSession == [new |-> <<>>, failed |-> FALSE]

\* one caller, about to run analyze on any text and any pair of scores
InitAnalyze ==
    /\ self = NewAnalyzer
    /\ \E text \in Texts(MaxLen), vader \in General, textblob \in General :
           call = [th \in Threads |->
                      IF th = 1
                      THEN [pc |-> "running", text |-> text,
                            vader |-> vader, textblob |-> textblob]
                      ELSE Idle]
    /\ fn = [pc |-> "none"]
    /\ entries = <<>>
    /\ session = NewSession
    /\ request = NoRequest
    /\ response = NoResponse
    /\ utcnow = 0

NextAnalyze == \E th \in Threads : Return(th)

SpecAnalyze == InitAnalyze /\ [][NextAnalyze]_vars

\* two callers sharing the one analyzer object
InitShared ==
    /\ self = NewAnalyzer
    /\ call = [th \in Threads |-> Idle]
    /\ fn = [pc |-> "none"]
    /\ entries = <<>>
    /\ session = NewSession
    /\ request = NoRequest
    /\ response = NoResponse
    /\ utcnow = 0

NextShared ==
    \/ \E th \in Threads, text \in SharedTexts,
          vader \in SharedGeneral, textblob \in SharedGeneral :
           Call(th, text, vader, textblob)
    \/ \E th \in Threads : Return(th)

SpecShared == InitShared /\ [][NextShared]_vars

(***************************************************************************)
(* The store and the SQLAlchemy session (models.py, db.session).           *)
(*                                                                         *)
(* entries is the committed table, in insertion order.  The session holds  *)
(* the objects added and not yet committed; a commit that fails leaves it  *)
(* failed, and a failed session refuses every add and commit until it is   *)
(* rolled back.                                                            *)
(***************************************************************************)
add(sess, entry) == [sess EXCEPT !.new = Append(@, entry)]

\* the rows a commit inserts: each pending object with the next free id
commit(store, sess) ==
    store \o [k \in 1..Len(sess.new) |->
                 [id |-> Len(store) + k] @@ sess.new[k]]

\* the session left as it is
rollback_skipped(sess) == sess

rollback(sess) == [new |-> <<>>, failed |-> FALSE]

(***************************************************************************)
(* handle_entries, POST.                                                   *)
(*                                                                         *)
(* data is what request.get_json() gives: it raises (the body is not       *)
(* JSON), or returns None, a dict, a list or a number.  A JSON value is a  *)
(* record tagged with its Python type.  fail tells where persistence       *)
(* raises, if it does: in db.session.add or in db.session.commit.          *)
(***************************************************************************)
\* not data
Falsy(data) ==
    \/ data.kind = "null"
    \/ data.kind = "object" /\ DOMAIN data.fields = {}
    \/ data.kind = "array" /\ data.items = {}
    \/ data.kind = "number" /\ data.n = 0

\* key in data, for a dict or a list
Contains(data, key) ==
    IF data.kind = "object" THEN key \in DOMAIN data.fields ELSE key \in data.items

\* isinstance(mood_rating, int): bool is a subclass of int
IsInt(value) == value.t \in {"int", "bool"}

\* the value as Python compares and stores it: True is 1, False is 0
IntOf(value) == IF value.t = "bool" THEN (IF value.b THEN 1 ELSE 0) ELSE value.n

\* the content stored as it arrived
Trimmed_raw(value) == value.s

\* data['content'].strip()
Trimmed(value) == strip(value.s)

BadRequest(message, store, sess) ==
    [status |-> 400, json |-> [success |-> FALSE, error |-> message],
     entries |-> store, session |-> sess]

\* the except branch: roll back, answer 500
ServerError(store, sess) ==
    [status |-> 500, json |-> [success |-> FALSE, error |-> "Internal server error"],
     entries |-> store, session |-> rollback(sess)]

\* lines 45-62: build the entry, add it, commit, answer 200
Save(store, sess, fail, mood_rating, content, sentiment_result, now) ==
    LET entry == [mood_rating |-> mood_rating,
                  content |-> content,
                  sentiment_score |-> sentiment_result.compound_score,
                  sentiment_label |-> sentiment_result.sentiment_label,
                  timestamp |-> now,
                  created_at |-> now]
    IN
    IF fail = "add" \/ sess.failed THEN ServerError(store, sess)
    ELSE IF fail = "commit"
    THEN ServerError(store, [add(sess, entry) EXCEPT !.failed = TRUE])
    ELSE [status |-> 200,
          json |-> [success |-> TRUE,
                    entry_id |-> Len(store) + Len(sess.new) + 1,
                    sentiment |-> sentiment_result.sentiment_label],
          entries |-> commit(store, add(sess, entry)),
          session |-> NewSession]

\* Validated with the upper end of the mood range left unchecked
Validated_noupper(this, store, sess, req, now, mood_rating, content) ==
    IF ~IsInt(mood_rating) \/ IntOf(mood_rating) < 1
    THEN BadRequest("Mood rating must be between 1 and 5", store, sess)
    ELSE IF content = <<>> THEN BadRequest("Content cannot be empty", store, sess)
    ELSE Save(store, sess, req.fail, IntOf(mood_rating), content,
              analyze(this, content, req.vader, req.textblob), now)

\* lines 32-43: validate the two fields, analyze the content
Validated(this, store, sess, req, now, mood_rating, content) ==
    IF ~IsInt(mood_rating) \/ IntOf(mood_rating) < 1 \/ IntOf(mood_rating) > 5
    THEN BadRequest("Mood rating must be between 1 and 5", store, sess)
    ELSE IF content = <<>> THEN BadRequest("Content cannot be empty", store, sess)
    ELSE Save(store, sess, req.fail, IntOf(mood_rating), content,
              analyze(this, content, req.vader, req.textblob), now)

handle_entries(this, store, sess, req, now) ==
    IF req.data.kind = "raises" THEN ServerError(store, sess)
    ELSE IF Falsy(req.data) THEN BadRequest("Missing required fields", store, sess)
    \* 'mood' in <a number> raises TypeError
    ELSE IF req.data.kind = "number" THEN ServerError(store, sess)
    ELSE IF ~Contains(req.data, "mood") \/ ~Contains(req.data, "content")
    THEN BadRequest("Missing required fields", store, sess)
    \* <a list>['mood'] raises TypeError
    ELSE IF req.data.kind = "array" THEN ServerError(store, sess)
    \* .strip() of anything but a string raises AttributeError
    ELSE IF req.data.fields["content"].t # "str" THEN ServerError(store, sess)
    ELSE Validated(this, store, sess, req, now,
                   req.data.fields["mood"], Trimmed(req.data.fields["content"]))

(***************************************************************************)
(* Requests.                                                               *)
(***************************************************************************)
JInt(n) == [t |-> "int", n |-> n]
JBool(b) == [t |-> "bool", b |-> b]
JStr(s) == [t |-> "str", s |-> s]

MoodValues == {JInt(0), JInt(1), JInt(5), JInt(6), JBool(TRUE), JStr(<<"3">>)}

ContentValues ==
    {JStr(<<" ", "\t">>), JStr(<<" ", "grateful", "\t">>), JInt(5)}

Objects ==
    {[kind |-> "object", fields |-> <<>>]}
    \cup {[kind |-> "object", fields |-> [mood |-> m]] : m \in MoodValues}
    \cup {[kind |-> "object", fields |-> [content |-> c]] : c \in ContentValues}
    \cup {[kind |-> "object", fields |-> [mood |-> m, content |-> c]] :
             m \in MoodValues, c \in ContentValues}

Bodies ==
    Objects
    \cup {[kind |-> "raises"], [kind |-> "null"]}
    \cup {[kind |-> "array", items |-> i] : i \in SUBSET {"mood", "content"}}
    \cup {[kind |-> "number", n |-> n] : n \in {0, 7}}

\* the scores the libraries give for the content, in thousandths
WebGeneral == {<<-1000, -1000>>, <<600, 500>>}

\* the handler gets as far as the analysis
ReachesAnalysis(data) ==
    /\ data.kind = "object"
    /\ DOMAIN data.fields = {"mood", "content"}
    /\ data.fields["content"].t = "str"
    /\ strip(data.fields["content"].s) # <<>>
    /\ IsInt(data.fields["mood"])
    /\ IntOf(data.fields["mood"]) \in 1..5

\* the scores and the persistence failure matter only to a request that
\* gets as far as the analysis
Requests ==
    {[data |-> d, vader |-> 0, textblob |-> 0, fail |-> "none"] :
        d \in {b \in Bodies : ~ReachesAnalysis(b)}}
    \cup {[data |-> d, vader |-> g[1], textblob |-> g[2], fail |-> f] :
             d \in {b \in Bodies : ReachesAnalysis(b)},
             g \in WebGeneral, f \in {"none", "add", "commit"}}

\* the request is answered and the store and session are as the handler
\* left them
Handled(req, out) ==
    /\ request' = req
    /\ response' = [status |-> out.status, json |-> out.json]
    /\ entries' = out.entries
    /\ session' = out.session

Post(req) ==
    /\ Len(entries) < MaxEntries
    /\ Handled(req, handle_entries(self, entries, session, req, utcnow))
    /\ UNCHANGED <<self, call, fn, utcnow>>

\* a day passes on the server's UTC clock
Tick ==
    /\ utcnow < MaxDay
    /\ utcnow' = utcnow + 1
    /\ UNCHANGED <<self, call, fn, entries, session, request, response>>

Init ==
    /\ self = NewAnalyzer
    /\ call = [th \in Threads |-> Idle]
    /\ fn = [pc |-> "none"]
    /\ entries = <<>>
    /\ session = NewSession
    /\ request = NoRequest
    /\ response = NoResponse
    /\ utcnow = 0

Next ==
    \/ \E req \in Requests : Post(req)
    \/ Tick

Spec == Init /\ [][Next]_vars

(***************************************************************************)
(* Properties of analyze (SpecAnalyze, SpecShared).                        *)
(***************************************************************************)
Finished == {th \in Threads : call[th].pc = "done"}

\* C1: whatever the text and the two general-purpose scores, the result of
\* analyze has compound_score in [-1.0, 1.0] and confidence in [0.0, 1.0]
C1_Bounded ==
    \A th \in Finished :
        /\ call[th].result.compound_score \in -1000..1000
        /\ call[th].result.confidence \in 0..1000

\* C1 witness: a domain score above 1.0, with both the fused score and the
\* confidence held at 1.0
C1_Witness ==
    \E th \in Finished :
        /\ ~EmptyInput(call[th].text)
        /\ RLt(<<1, 1>>, call[th].locals.psych_score)
        /\ RLt(<<1, 1>>, call[th].locals.weighted_sum)
        /\ call[th].result.compound_score = 1000
        /\ call[th].result.confidence = 1000

\* C2: for empty or whitespace-only text analyze returns the fixed neutral
\* result and goes through neither the normalizer nor any scorer
C2_EmptyInput ==
    \A th \in Finished :
        (\A i \in 1..Len(call[th].text) : call[th].text[i] \in Whitespace) =>
            /\ call[th].result.compound_score = 0
            /\ call[th].result.sentiment_label = "neutral"
            /\ call[th].result.confidence = 0
            /\ call[th].result.word_count = 0
            /\ call[th].invoked = {"_empty_result"}

\* C2 witness: a text of whitespace only, not the empty string, was analyzed
C2_Witness ==
    \E th \in Finished :
        /\ Len(call[th].text) >= 2
        /\ \A i \in 1..Len(call[th].text) : call[th].text[i] \in Whitespace
        /\ call[th].vader # 0
        /\ call[th].result.confidence = 0

\* C10 as claimed: for every non-empty text the weighted sum lies in
\* [-1.0, 1.0] before it is clamped
C10_ClampNeverActs ==
    \A th \in Finished :
        ~EmptyInput(call[th].text) =>
            /\ RLe(<<-1, 1>>, call[th].locals.weighted_sum)
            /\ RLe(call[th].locals.weighted_sum, <<1, 1>>)

\* C10 amended: when the domain score itself lies in [-1.0, 1.0], the
\* weighted sum lies in [-1.0, 1.0] and the clamp returns it unchanged
C10_ClampIdleOnBoundedDomain ==
    \A th \in Finished :
        (/\ ~EmptyInput(call[th].text)
         /\ RLe(RAbs(call[th].locals.psych_score), <<1, 1>>)) =>
            /\ RLe(<<-1, 1>>, call[th].locals.weighted_sum)
            /\ RLe(call[th].locals.weighted_sum, <<1, 1>>)
            /\ call[th].locals.combined_score = call[th].locals.weighted_sum

\* C10 witness: a domain score of exactly 1.0 with both general scores at
\* 1.0 and some intensity: the sum reaches 0.93 and passes the clamp as is
C10_Witness ==
    \E th \in Finished :
        /\ ~EmptyInput(call[th].text)
        /\ call[th].locals.psych_score = <<1, 1>>
        /\ call[th].locals.weighted_sum = <<93, 100>>
        /\ call[th].locals.combined_score = <<93, 100>>

\* C6: two finished calls with the same text and the same general-purpose
\* scores hold the same result, however the calls of the two threads were
\* interleaved, and the analyzer's tables are those it was constructed with
C6_Deterministic ==
    /\ self = NewAnalyzer
    /\ \A a \in Finished, b \in Finished :
           (/\ call[a].text = call[b].text
            /\ call[a].vader = call[b].vader
            /\ call[a].textblob = call[b].textblob) =>
               call[a].result = call[b].result

\* C6 witness: both threads have finished a call on the same text with a
\* modified domain word, with the same scores
C6_Witness ==
    /\ Finished = Threads
    /\ call[1].text = <<"very", " ", "grateful">>
    /\ call[2].text = call[1].text
    /\ call[1].vader = call[2].vader
    /\ call[1].textblob = call[2].textblob
    /\ call[1].result = call[2].result
    /\ call[1].result.psychology_score = 1300

\* C11: in every result analyze returns, sentiment_label is "positive" exactly
\* when the returned (rounded) compound_score is >= 0.15, "negative" exactly
\* when it is <= -0.15, and "neutral" otherwise
C11_LabelAgreesWithReturnedScore ==
    \A th \in Finished :
        LET r == call[th].result
        IN  /\ (r.sentiment_label = "positive") <=> (r.compound_score >= 150)
            /\ (r.sentiment_label = "negative") <=> (r.compound_score <= -150)
            /\ (r.sentiment_label = "neutral") <=>
                   (r.compound_score > -150 /\ r.compound_score < 150)

(***************************************************************************)
(* The analyzer's methods called on their own: one call, on any argument   *)
(* of the sets below.                                                      *)
(***************************************************************************)
\* scores handed to classify_sentiment: the thresholds, their neighbours at
\* one ten-thousandth, and values far inside and outside [-1, 1]
ClassifyInputs ==
    {Rat(n, 10000) : n \in (-1505..-1495) \cup (-3..3) \cup (1495..1505)
                            \cup {-20000, -10000, -5000, 5000, 10000, 20000}}

\* scores handed to calculate_confidence: around 0.05 and 0.1, and large
ConfidenceGeneral ==
    {Rat(n, 1000) : n \in {-1000, -101, -51, -50, 0, 50, 51, 100, 101, 1000}}

ConfidenceDomain ==
    {Rat(n, 1000) : n \in {-2800, -1050, -50, 0, 49, 50, 51, 1300, 2000}}

DomainWords ==
    DOMAIN positive_psychology_words \cup DOMAIN negative_psychology_words

\* the modifiers that are single words
ModifierWords == {m \in DOMAIN intensity_modifiers : m \notin {"a bit", "a little"}}

\* texts handed to psychology_weighted_analysis: a word alone, a word after
\* a modifier, a word after "a bit", a word before a modifier
DomainTexts ==
    {<<w>> : w \in DomainWords \cup {"table"}}
    \cup {<<m, " ", w>> : m \in ModifierWords, w \in DomainWords \cup {"table"}}
    \cup {<<"a", " ", "bit", " ", w>> : w \in DomainWords}
    \cup {<<w, " ", m>> : m \in ModifierWords, w \in {"grateful", "hopeless"}}

InitFn ==
    /\ self = NewAnalyzer
    /\ call = [th \in Threads |-> Idle]
    /\ \/ \E x \in ClassifyInputs :
              fn = [pc |-> "called", op |-> "classify_sentiment", combined_score |-> x]
       \/ \E v \in ConfidenceGeneral, t \in ConfidenceGeneral, p \in ConfidenceDomain :
              fn = [pc |-> "called", op |-> "calculate_confidence",
                    vader_scores |-> [compound |-> v],
                    textblob_polarity |-> t, psych_score |-> p]
       \/ \E text \in DomainTexts :
              fn = [pc |-> "called", op |-> "psychology_weighted_analysis",
                    text |-> text]
    /\ entries = <<>>
    /\ session = NewSession
    /\ request = NoRequest
    /\ response = NoResponse
    /\ utcnow = 0

Classify ==
    /\ fn.pc = "called" /\ fn.op = "classify_sentiment"
    /\ fn' = [pc |-> "returned", op |-> fn.op, combined_score |-> fn.combined_score,
              out |-> classify_sentiment(fn.combined_score)]
    /\ UNCHANGED <<self, call, entries, session, request, response, utcnow>>

Confidence ==
    /\ fn.pc = "called" /\ fn.op = "calculate_confidence"
    /\ fn' = [pc |-> "returned", op |-> fn.op, vader_scores |-> fn.vader_scores,
              textblob_polarity |-> fn.textblob_polarity,
              psych_score |-> fn.psych_score,
              out |-> calculate_confidence(fn.vader_scores, fn.textblob_polarity,
                                           fn.psych_score)]
    /\ UNCHANGED <<self, call, entries, session, request, response, utcnow>>

DomainScore ==
    /\ fn.pc = "called" /\ fn.op = "psychology_weighted_analysis"
    /\ fn' = [pc |-> "returned", op |-> fn.op, text |-> fn.text,
              out |-> psychology_weighted_analysis(self, fn.text)]
    /\ UNCHANGED <<self, call, entries, session, request, response, utcnow>>

NextFn == Classify \/ Confidence \/ DomainScore

SpecFn == InitFn /\ [][NextFn]_vars

Returned(op) == fn.pc = "returned" /\ fn.op = op

\* C3: classify_sentiment gives 'positive' exactly from 0.15 up, 'negative'
\* exactly from -0.15 down and 'neutral' strictly between; the two
\* thresholds themselves are not neutral
C3_Thresholds ==
    Returned("classify_sentiment") =>
        LET x == fn.combined_score
        IN  /\ fn.out \in {"positive", "negative", "neutral"}
            /\ fn.out = "positive" <=> x[1] * 100 >= 15 * x[2]
            /\ fn.out = "negative" <=> x[1] * 100 <= -15 * x[2]
            /\ fn.out = "neutral" <=>
                   (-15 * x[2] < x[1] * 100 /\ x[1] * 100 < 15 * x[2])

\* C3 witness: the threshold -0.15 itself was classified, as negative
C3_Witness ==
    /\ Returned("classify_sentiment")
    /\ fn.combined_score = <<-3, 20>>
    /\ fn.out = "negative"

\* the weight of a word and the multiplier of a modifier, in tenths
WeightOf(w) ==
    IF w \in DOMAIN positive_psychology_words THEN positive_psychology_words[w]
    ELSE negative_psychology_words[w]

\* the text is 'modifier word' with an amplifying modifier and a domain word
Amplified(text) ==
    /\ Len(text) = 3
    /\ text[1] \in DOMAIN intensity_modifiers
    /\ intensity_modifiers[text[1]] > 10
    /\ text[2] = " "
    /\ text[3] \in DomainWords

\* C4 as claimed: the domain score of 'modifier word', with an amplifying
\* modifier, is strictly greater than the domain score of 'word' alone
C4_AmplifiedScoresHigher ==
    (Returned("psychology_weighted_analysis") /\ Amplified(fn.text)) =>
        RLt(Rat(WeightOf(fn.text[3]), 10), fn.out)

\* C4 amended: the domain score of 'modifier word' is multiplier * weight / 2:
\* the word's term of the sum is amplified, but the sum is divided by the two
\* tokens and every multiplier is below 2, so the score is strictly smaller
\* in absolute value than the weight, the score of 'word' alone; it has the
\* weight's sign
C4_AmplifiedThenHalved ==
    (Returned("psychology_weighted_analysis") /\ Amplified(fn.text)) =>
        LET weight == WeightOf(fn.text[3])
            multiplier == intensity_modifiers[fn.text[1]]
        IN  /\ fn.out[1] * 200 = weight * multiplier * fn.out[2]
            /\ Abs(weight * multiplier) > Abs(weight * 10)
            /\ RLt(RAbs(fn.out), Rat(Abs(weight), 10))
            /\ (fn.out[1] > 0) = (weight > 0)

\* C4 witness: 'very grateful' was scored, at 1.3, below the 2.0 of 'grateful'
C4_Witness ==
    /\ Returned("psychology_weighted_analysis")
    /\ fn.text = <<"very", " ", "grateful">>
    /\ fn.out = <<13, 10>>

\* the number of the three scores with absolute value above 0.05
Opinions ==
    Cardinality({i \in 1..3 :
        LET s == <<fn.vader_scores.compound, fn.textblob_polarity, fn.psych_score>>[i]
        IN  Abs(s[1]) * 100 > 5 * s[2]})

\* C5: when fewer than two of the three scores have absolute value above
\* 0.05, calculate_confidence returns exactly 0.5, whatever the remaining
\* score is; a score of exactly 0.05 in absolute value has no opinion
C5_Floor ==
    (Returned("calculate_confidence") /\ Opinions < 2) => fn.out = <<1, 2>>

\* C5 witness: one score at exactly -0.05, one at exactly 0.05, one at its
\* largest: the result is 0.5
C5_Witness ==
    /\ Returned("calculate_confidence")
    /\ fn.vader_scores.compound = <<-1, 20>>
    /\ fn.textblob_polarity = <<1, 20>>
    /\ fn.psych_score = <<-14, 5>>
    /\ fn.out = <<1, 2>>

(***************************************************************************)
(* Properties of POST /api/entries (Spec).  A step that leaves the clock   *)
(* alone is the handling of request'.                                      *)
(***************************************************************************)
Blank(text) == \A i \in 1..Len(text) : text[i] \in Whitespace

\* the request is malformed or misses a required field
Malformed(data) ==
    \/ data.kind # "object"
    \/ "mood" \notin DOMAIN data.fields
    \/ "content" \notin DOMAIN data.fields
    \/ data.fields["mood"].t # "int"
    \/ data.fields["mood"].n \notin 1..5
    \/ data.fields["content"].t # "str"
    \/ Blank(data.fields["content"].s)

\* C7 as claimed: every malformed request (persistence not failing) is
\* answered 400 and leaves the stored entries as they were
C7_MalformedIs400 ==
    [][(utcnow' = utcnow /\ Malformed(request'.data) /\ request'.fail = "none") =>
           (response'.status = 400 /\ entries' = entries)]_vars

\* the valid requests whose persistence does not fail
ValidRequests == {req \in Requests : ~Malformed(req.data) /\ req.fail = "none"}

\* the outcome is a 200 that added one entry to the store
Stored(out, store) == out.status = 200 /\ Len(out.entries) = Len(store) + 1

\* some valid request, persisted without failure, is answered 200 and adds
\* one entry
CanStillPost(this, store, sess, now) ==
    \E req \in ValidRequests :
        Stored(handle_entries(this, store, sess, req, now), store)

\* C8: when the add or the commit of a new entry raises, the handler rolls
\* the session back and answers 500 with success=false; the stored entries
\* are what they were before the request, and a valid POST can then succeed
C8_RollbackOnFailure ==
    [][(/\ utcnow' = utcnow
        /\ ReachesAnalysis(request'.data)
        /\ request'.fail # "none") =>
           (/\ response'.status = 500
            /\ response'.json.success = FALSE
            /\ entries' = entries
            /\ session' = [new |-> <<>>, failed |-> FALSE]
            /\ CanStillPost(self', entries', session', utcnow'))]_vars

\* C8 witness: a commit failed after an entry had been stored; the entry is
\* still there and the answer is 500
C8_Witness ==
    /\ request.data.kind = "object"
    /\ request.fail = "commit"
    /\ response.status = 500
    /\ Len(entries) = 1
    /\ session.new = <<>>

\* content is raw with the whitespace at both ends removed, and not empty
IsTrimOf(content, raw) ==
    /\ content # <<>>
    /\ content[1] \notin Whitespace
    /\ content[Len(content)] \notin Whitespace
    /\ \E i \in 0..Len(raw) :
           /\ i + Len(content) <= Len(raw)
           /\ SubSeq(raw, i + 1, i + Len(content)) = content
           /\ \A j \in 1..Len(raw) :
                  (j <= i \/ j > i + Len(content)) => raw[j] \in Whitespace

\* what analyze returns for the content with the request's scores agrees
\* with the entry and with the response
AnalyzedAs(this, entry, req, json) ==
    /\ entry.sentiment_score =
           analyze(this, entry.content, req.vader, req.textblob).compound_score
    /\ entry.sentiment_label =
           analyze(this, entry.content, req.vader, req.textblob).sentiment_label
    /\ json.sentiment = entry.sentiment_label

\* C9: a POST with an integer mood in 1..5 and content that is not empty
\* after trimming, persisted without failure, is answered 200 with
\* success=true and adds exactly one entry: the given mood, the trimmed
\* content, the score and label analyze returns for the trimmed content
\* (the label is also in the response); the entries stored before are
\* unchanged
C9_ValidPostStores ==
    [][(/\ utcnow' = utcnow
        /\ ~Malformed(request'.data)
        /\ request'.fail = "none") =>
           (/\ response'.status = 200
            /\ response'.json.success = TRUE
            /\ Len(entries') = Len(entries) + 1
            /\ SubSeq(entries', 1, Len(entries)) = entries
            /\ entries'[Len(entries')].mood_rating = request'.data.fields["mood"].n
            /\ IsTrimOf(entries'[Len(entries')].content,
                        request'.data.fields["content"].s)
            /\ AnalyzedAs(self, entries'[Len(entries')], request', response'.json))]_vars

\* C9 witness: a second valid POST was stored behind the first, its content
\* trimmed
C9_Witness ==
    /\ ~Malformed(request.data)
    /\ request.fail = "none"
    /\ response.status = 200
    /\ Len(entries) = 2
    /\ request.data.fields["content"].s = <<" ", "grateful", "\t">>
    /\ entries[2].content = <<"grateful">>
    /\ entries[2].mood_rating = 5
    /\ entries[2].sentiment_label = "positive"

(***************************************************************************)
(* The journaling streak of GET /api/analytics.  Entries are stamped with  *)
(* the UTC clock; the streak is counted back from the date of the server's *)
(* local clock.  The store keeps the UTC day of an entry; the hour of the  *)
(* day at which a request is served and the offset of the server's zone    *)
(* from UTC, in hours, are inputs of the request.                          *)
(***************************************************************************)
\* datetime.date() of a clock reading given in hours
date(hours) == hours \div 24

\* datetime.now(): the server's local clock, in hours
now(utc_day, hour, offset) == utc_day * 24 + hour + offset

\* sorted(entries, key=timestamp, reverse=True); equal keys keep their order
RECURSIVE sorted_entries(_)
sorted_entries(es) ==
    IF es = <<>> THEN <<>>
    ELSE LET rest == sorted_entries(SubSeq(es, 1, Len(es) - 1))
             e == es[Len(es)]
             k == Cardinality({i \in 1..Len(rest) : rest[i].timestamp >= e.timestamp})
         IN  SubSeq(rest, 1, k) \o <<e>> \o SubSeq(rest, k + 1, Len(rest))

\* the dates of the entries, each once, in the order met
RECURSIVE entry_dates(_, _)
entry_dates(es, acc) ==
    IF es = <<>> THEN acc
    ELSE LET d == es[1].timestamp
         IN  entry_dates(Tail(es),
                         IF \E i \in 1..Len(acc) : acc[i] = d THEN acc
                         ELSE Append(acc, d))

\* the loop over entry_dates[1:]
RECURSIVE CountConsecutive(_, _, _)
CountConsecutive(dates, streak, current_date) ==
    IF dates = <<>> THEN streak
    ELSE IF dates[1] = current_date
    THEN CountConsecutive(Tail(dates), streak + 1, current_date - 1)
    ELSE streak

\* the streak, counted from the first date
StreakFrom(dates, today) ==
    IF dates[1] = today THEN CountConsecutive(Tail(dates), 1, today - 1)
    ELSE IF dates[1] = today - 1 THEN CountConsecutive(Tail(dates), 1, today - 2)
    ELSE 0

calculate_journal_streak(es, today) ==
    IF es = <<>> THEN 0
    ELSE StreakFrom(entry_dates(sorted_entries(es), <<>>), today)

\* hours of the UTC day at which a request is served
DayHours == {2, 20}
\* offsets of the server's zone from UTC, in hours
Offsets == {-8, 0, 9}

\* the POSTs made while the streak is watched
StreakRequests ==
    {req \in Requests :
        /\ req.data.kind = "object"
        /\ DOMAIN req.data.fields = {"mood", "content"}
        /\ req.data.fields["mood"] \in {JInt(5), JInt(6)}
        /\ req.data.fields["content"] = JStr(<<" ", "grateful", "\t">>)
        /\ req.vader = 600
        /\ req.fail \in {"none", "commit"}}

\* GET /api/analytics: streak_days over all stored entries
get_analytics(hour, offset) ==
    /\ fn' = [pc |-> "analytics",
              utcnow |-> utcnow,
              hour |-> hour,
              offset |-> offset,
              today |-> date(now(utcnow, hour, offset)),
              status |-> response.status,
              entries |-> entries,
              streak_days |->
                  calculate_journal_streak(entries, date(now(utcnow, hour, offset)))]
    /\ UNCHANGED <<self, call, entries, session, request, response, utcnow>>

NextStreak ==
    \/ \E req \in StreakRequests : Post(req)
    \/ Tick
    \/ \E hour \in DayHours, offset \in Offsets : get_analytics(hour, offset)

SpecStreak == Init /\ [][NextStreak]_vars

Dates(es) == {es[i].timestamp : i \in 1..Len(es)}

Newest(dates) == CHOOSE d \in dates : \A x \in dates : x <= d

\* the longest run of consecutive days with an entry that ends at the newest
\* date, when that is today or yesterday; 0 otherwise
LongestRun(dates, today) ==
    IF dates = {} THEN 0
    ELSE IF Newest(dates) \notin {today, today - 1} THEN 0
    ELSE CHOOSE k \in 1..Cardinality(dates) :
             /\ \A j \in 0..(k - 1) : (Newest(dates) - j) \in dates
             /\ (Newest(dates) - k) \notin dates

\* C12: the streak is the length of the longest run of consecutive days with
\* an entry that ends today or yesterday (0 if the newest entry is of neither
\* day), and it is at least 1 when asked for right after a POST succeeded,
\* whatever the offset between the UTC clock and the local clock
C12_StreakAfterPost ==
    fn.pc = "analytics" =>
        /\ fn.streak_days = LongestRun(Dates(fn.entries), fn.today)
        /\ (/\ fn.status = 200
            /\ fn.entries # <<>>
            /\ fn.entries[Len(fn.entries)].timestamp = fn.utcnow) =>
               fn.streak_days >= 1

(***************************************************************************)
(* What the store holds after any run of POSTs.                            *)
(***************************************************************************)
\* C13: whatever POSTs were made (valid, invalid, failing in persistence),
\* every stored entry has mood_rating in 1..5, content that is not empty and
\* neither starts nor ends with whitespace, a label among positive, neutral
\* and negative, and a score in [-1.0, 1.0]; the content, which is the text
\* handed to analyze, never takes the analyzer's empty-input path
C13_StoredEntriesWellFormed ==
    \A i \in 1..Len(entries) :
        /\ entries[i].mood_rating \in 1..5
        /\ entries[i].content # <<>>
        /\ entries[i].content[1] \notin Whitespace
        /\ entries[i].content[Len(entries[i].content)] \notin Whitespace
        /\ entries[i].sentiment_label \in {"positive", "neutral", "negative"}
        /\ entries[i].sentiment_score \in -1000..1000
        /\ ~EmptyInput(entries[i].content)

\* C13 witness: two entries are stored, the second from a request whose mood
\* is the JSON value true and whose content was wrapped in whitespace
C13_Witness ==
    /\ Len(entries) = 2
    /\ response.status = 200
    /\ request.data.fields["mood"] = JBool(TRUE)
    /\ request.data.fields["content"] = JStr(<<" ", "grateful", "\t">>)
    /\ entries[2].mood_rating = 1
    /\ entries[2].content = <<"grateful">>
    /\ entries[2].sentiment_label = "neutral"
    /\ entries[1].sentiment_label = "positive"

====
